---- MODULE Spec2Model ----
(***************************************************************************)
(* A model of the recruitment pipeline: entity extraction with its masking *)
(* guardrail (pipelines/1_extraction.py), the knowledge-graph loader       *)
(* (pipelines/2_kg_builder.py), the retrieval and rationale service        *)
(* (pipelines/3_rag_service.py) and the dashboards' graph query            *)
(* (pipelines/dashboard-v1.py, pipelines/dashboard-v2.py).                 *)
(***************************************************************************)
EXTENDS Integers, Sequences, FiniteSets, TLC

(***************************************************************************)
(* Bounds of the model.                                                    *)
(***************************************************************************)
MaxLen == 3

\* Documents in one batch.
MaxBatch == 2

\* Calls of process_all_resumes, load_candidate_data and load_job_data.
MaxCalls == 2

\* The largest number of results a search is asked for.
MaxTopK == 2

\* rand() is one of the levels 0..RandMax (hundredths of the score).
RandMax == 1

(***************************************************************************)
(* Program constants.                                                      *)
(***************************************************************************)
MASKED_ENTITIES == {"PERSON", "GENDER", "AGE", "DATE", "ADDRESS", "ETHNICITY"}

ESCO_SKILLS == {"python", "django", "flask", "javascript", "developer", "engineer"}

RoleWords == {"developer", "engineer", "analyst"}

\* The title of the mock job, character by character.
JobTitle ==
    <<"S", "e", "n", "i", "o", "r", " ", "P", "y", "t", "h", "o", "n", " ",
      "D", "e", "v", "e", "l", "o", "p", "e", "r">>

(***************************************************************************)
(* Texts.  A text is a sequence of words; a spaCy token carries the words  *)
(* of the text it covers (its orth), a lemma and a tag.                    *)
(***************************************************************************)
Words == {"Alex", "Johnson", "2015", "python", "Developer"}

\* The entity labels the recognizer hands out (ORG is one it does not mask).
NerLabels == {"PERSON", "DATE", "ORG"}

\* str.lower() on the words of the model.
Lower(w) ==
    CASE w = "Alex" -> "alex"
      [] w = "Johnson" -> "johnson"
      [] w = "Developer" -> "developer"
      [] w = "Experienced" -> "experienced"
      [] w = "Python" -> "python"
      [] w = "Django" -> "django"
      [] w = "Flask" -> "flask"
      [] w = "My" -> "my"
      [] w = "I" -> "i"
      [] OTHER -> w

BoundedSeqs(S, n) == UNION {[1..k -> S] : k \in 0..n}

\* The sub-sequence t[a..b] of a sequence.
Slice(t, a, b) == [i \in 1..(b - a + 1) |-> t[a + i - 1]]

\* Whether the word sequence sub occurs contiguously in txt.
Contains(txt, sub) ==
    \E a \in 1..(Len(txt) - Len(sub) + 1) : Slice(txt, a, a + Len(sub) - 1) = sub

\* nlp(text): one token per word.
MakeDoc(txt) ==
    [i \in 1..Len(txt) |-> [text |-> <<txt[i]>>, lemma |-> Lower(txt[i]), tag |-> "TAG"]]

\* The entity annotations a recognizer may put on a text of n tokens:
\* labelled spans (first..last token) that do not overlap.
RECURSIVE EntsFrom(_, _)
EntsFrom(i, n) ==
    IF i > n THEN {{}}
    ELSE EntsFrom(i + 1, n) \cup
         UNION {{{[first |-> i, last |-> jl[1], label |-> jl[2]]} \cup E :
                    E \in EntsFrom(jl[1] + 1, n)} : jl \in (i..n) \X NerLabels}

EntSets(n) == EntsFrom(1, n)

\* The literal text of an entity span.
SpanText(txt, e) == Slice(txt, e.first, e.last)

\* doc.text: the concatenation of the tokens' texts.
RECURSIVE DocText(_)
DocText(toks) ==
    IF toks = <<>> THEN <<>> ELSE Head(toks).text \o DocText(Tail(toks))

\* retokenizer.merge(ent, attrs={LEMMA, TAG}): one token covering the span;
\* the token keeps the text of the tokens it replaces.
MergedToken(toks, e) ==
    [text |-> DocText(Slice(toks, e.first, e.last)),
     lemma |-> "[MASKED_ENTITY]", tag |-> "XX"]

RECURSIVE MergeFrom(_, _, _)
MergeFrom(toks, E, i) ==
    IF i > Len(toks) THEN <<>>
    ELSE IF \E e \in E : e.first = i /\ e.label \in MASKED_ENTITIES
         THEN LET e == CHOOSE e \in E : e.first = i /\ e.label \in MASKED_ENTITIES
              IN  <<MergedToken(toks, e)>> \o MergeFrom(toks, E, e.last + 1)
         ELSE <<toks[i]>> \o MergeFrom(toks, E, i + 1)

\* apply_guardrails(doc)
apply_guardrails(toks, E) == MergeFrom(toks, E, 1)

\* The PhraseMatcher over the lexicon (one-token patterns, matched on the
\* token's orth) and the lower-cased, deduplicated skills.
MatchedSkills(toks) ==
    {Lower(toks[i].text[1]) : i \in {j \in 1..Len(toks) :
        Len(toks[j].text) = 1 /\ toks[j].text[1] \in ESCO_SKILLS}}

\* The role tokens, in text order.
RECURSIVE MatchedRoles(_)
MatchedRoles(toks) ==
    IF toks = <<>> THEN <<>>
    ELSE (IF Len(Head(toks).text) = 1 /\ Lower(Head(toks).text[1]) \in RoleWords
          THEN <<Head(toks).text[1]>> ELSE <<>>) \o MatchedRoles(Tail(toks))

\* The record extract_entities builds from the masked document.
ExtractedRecord(toks) ==
    [text_clean |-> DocText(toks),
     skills |-> MatchedSkills(toks),
     roles |-> MatchedRoles(toks),
     experience_text |-> <<DocText(toks)>>]

NoRecord == [text_clean |-> <<>>, skills |-> {}, roles |-> <<>>, experience_text |-> <<>>]

(***************************************************************************)
(* process_all_resumes: every document gets the same mock text.            *)
(***************************************************************************)
MockText ==
    <<"Experienced", "Python", "Developer", "with", "5", "years", "experience",
      "in", "Django", "and", "Flask", ".", "My", "name", "is", "Alex", "Johnson",
      ",", "and", "I", "graduated", "in", "2015", ".">>

\* What the recognizer is expected to find in it; the record does not depend
\* on this (no token is merged into or out of a skill match).
MockEnts ==
    {[first |-> 16, last |-> 17, label |-> "PERSON"],
     [first |-> 23, last |-> 23, label |-> "DATE"]}

\* data = extract_entities(text)
MockData == ExtractedRecord(apply_guardrails(MakeDoc(MockText), MockEnts))

\* data['candidate_id'] = f"CAND_{i:04d}"
MockRecord(i) ==
    [candidate_id |-> i, text_clean |-> MockData.text_clean, skills |-> MockData.skills]

\* The records process_all_resumes can return.
MockRecords == {MockRecord(i) : i \in 0..(MaxBatch - 1)}

(***************************************************************************)
(* The graph store, and the Cypher statements of KGBuilder.                *)
(***************************************************************************)
\* Candidate ids: CAND_0000, CAND_0001, ... as numbers.
CandIds == 0..(MaxBatch - 1)

\* The clean texts and skills of the records a caller hands to
\* load_candidate_data.
CleanTexts == {<<"Alex", "python">>, <<"python", "Developer">>}

RecSkills == {"python", "flask"}

Records == [candidate_id : CandIds, text_clean : CleanTexts, skills : SUBSET RecSkills]

\* A property that is not set (null).
Null == <<"null">>

\* MERGE (c:Candidate {id: $id, clean_text: $text}): a node with both
\* properties is matched; otherwise one is created.
MergeCandidate(cn, id, text) ==
    IF \E c \in cn : c.id = id /\ c.clean_text = text
    THEN cn
    ELSE cn \cup {[id |-> id, clean_text |-> text]}

\* MERGE (c:Candidate {id: $id}): the nodes the pattern binds (all the nodes
\* with this id; a new node when there is none).
MergeCandidateById(cn, id) ==
    IF \E c \in cn : c.id = id
    THEN cn
    ELSE cn \cup {[id |-> id, clean_text |-> Null]}

BoundById(cn, id) == {c \in cn : c.id = id}

\* MERGE (c)-[:HAS_SKILL]->(s), for every row of the statement.
MergeHasSkill(hs, cn, id, skill) ==
    hs \cup {<<c, skill>> : c \in BoundById(cn, id)}

(***************************************************************************)
(* State.                                                                  *)
(***************************************************************************)
VARIABLES
    xpc,        \* extract_entities: "start", "parsed", "masked", "done"
    xtext,      \* its argument
    xdoc,       \* the document's tokens
    xents,      \* the document's entities
    extracted,  \* its result
    cnodes,     \* the store's Candidate nodes (one never equals another in
                \* both properties, so a node is told by its properties)
    snodes,     \* the names of the store's Skill nodes
    has_skill,  \* HAS_SKILL relationships: <<candidate node, skill name>>
    jnodes,     \* the store's Job nodes
    req_skill,  \* REQUIRES_SKILL relationships: <<job id, skill name>>
    ing,        \* the ingestion callers
    calls,      \* calls of the loader made so far (candidates or job)
    last_write, \* per candidate id, the text of the last Candidate statement
    overlap,    \* whether a call began while another caller's call was running
    app,        \* the program that runs: "ingest", "extract", "rag", "dash"
    initialized, \* RAGService.initialized
    call,       \* the last search or rationale call and its arguments
    retrieved,  \* the list hybrid_candidate_search returned
    onodes,     \* the dashboards' store: Occupation nodes
    oreq,       \* REQUIRES relationships: <<occupation, skill name>>
    dcands,     \* Candidate nodes
    dhas,       \* HAS_SKILL relationships: <<candidate node, skill name>>
    top         \* the rows get_top_candidates returned

xvars == <<xpc, xtext, xdoc, xents, extracted>>

store == <<cnodes, snodes, has_skill, jnodes, req_skill>>

dstore == <<onodes, oreq, dcands, dhas>>

svars == <<app, initialized, call, retrieved, onodes, oreq, dcands, dhas, top>>

kvars == <<cnodes, snodes, has_skill, jnodes, req_skill, ing, calls, last_write,
           overlap>>

vars == <<xpc, xtext, xdoc, xents, extracted,
          cnodes, snodes, has_skill, jnodes, req_skill, ing, calls, last_write,
          overlap, app, initialized, call, retrieved, onodes, oreq, dcands, dhas, top>>

\* The ingestion callers that may run at the same time.
Callers == {1, 2}

IdleCaller ==
    [pc |-> "idle", src |-> "none", paths |-> <<>>, n |-> 0, left |-> 0, id |-> 0,
     pend |-> {}]

XIdle ==
    /\ xpc = "idle"
    /\ xtext = <<>>
    /\ xdoc = <<>>
    /\ xents = {}
    /\ extracted = NoRecord

KInit ==
    /\ cnodes = {}
    /\ snodes = {}
    /\ has_skill = {}
    /\ jnodes = {}
    /\ req_skill = {}
    /\ ing = [w \in Callers |-> IdleCaller]
    /\ calls = 0
    /\ last_write = [i \in CandIds |-> Null]
    /\ overlap = FALSE

NoCall == [op |-> "none", query |-> <<>>, k |-> 0, thr |-> <<0, 1>>, failing |-> {}]

\* No search has been made, and the dashboards' store is empty.
SIdle ==
    /\ initialized = FALSE
    /\ call = NoCall
    /\ retrieved = <<>>
    /\ onodes = {}
    /\ oreq = {}
    /\ dcands = {}
    /\ dhas = {}
    /\ top = <<>>

(***************************************************************************)
(* extract_entities, step by step.                                         *)
(***************************************************************************)
InitExtract ==
    /\ xpc = "start"
    /\ xtext \in BoundedSeqs(Words, MaxLen)
    /\ xdoc = <<>>
    /\ xents = {}
    /\ extracted = NoRecord
    /\ KInit
    /\ SIdle
    /\ app = "extract"

\* doc = nlp(text): tokens, and the entities the recognizer finds.
Nlp ==
    /\ xpc = "start"
    /\ xdoc' = MakeDoc(xtext)
    /\ xents' \in EntSets(Len(xtext))
    /\ xpc' = "parsed"
    /\ UNCHANGED <<xtext, extracted, kvars, svars>>

\* doc = apply_guardrails(doc)
ApplyGuardrails ==
    /\ xpc = "parsed"
    /\ xdoc' = apply_guardrails(xdoc, xents)
    /\ xpc' = "masked"
    /\ UNCHANGED <<xtext, xents, extracted, kvars, svars>>

\* The matcher, the roles and the returned record.
ExtractRecord ==
    /\ xpc = "masked"
    /\ extracted' = ExtractedRecord(xdoc)
    /\ xpc' = "done"
    /\ UNCHANGED <<xtext, xdoc, xents, kvars, svars>>

NextExtract == Nlp \/ ApplyGuardrails \/ ExtractRecord

SpecExtract == InitExtract /\ [][NextExtract]_vars

(***************************************************************************)
(* Ingestion into the graph store: the statements of load_candidate_data   *)
(* of each caller, and of load_job_data, interleave.                       *)
(***************************************************************************)
Ended == {"idle", "returned", "raised"}

\* The records of a caller that came from process_all_resumes are the mock
\* records; another caller hands over records of its own.
RecordsAt(c) ==
    IF c.src = "driver" THEN {MockRecord(c.n - c.left)} ELSE Records

\* The caller's state once the record it is in has been written.
AfterRecord(c) ==
    [c EXCEPT !.left = c.left - 1, !.pend = {}, !.id = 0,
              !.pc = IF c.left - 1 = 0 THEN "returned" ELSE "cand"]

\* The files a batch may name.
ResumePaths == {"resume1.txt", "resume2.txt"}

\* The non-empty lists of at most MaxBatch paths.
ResumePathLists == BoundedSeqs(ResumePaths, MaxBatch) \ {<<>>}

\* process_all_resumes(resume_paths): the document at position i of the
\* list (from 0) gets the id CAND_i.  extract_entities raises at document
\* failAt (0: at none), and the exception leaves the function.
ProcessAllResumes(w, resume_paths, failAt) ==
    /\ ing[w].pc \in Ended
    /\ calls < MaxCalls
    /\ calls' = calls + 1
    /\ ing' = [ing EXCEPT ![w] =
                 [pc |-> IF failAt = 0 THEN "extracted" ELSE "raised",
                  src |-> "driver", paths |-> resume_paths,
                  n |-> Len(resume_paths), left |-> Len(resume_paths),
                  id |-> 0, pend |-> {}]]
    /\ UNCHANGED <<store, last_write, overlap, xvars, svars>>

\* load_candidate_data(structured_data), up to its loop: it returns at once
\* when the builder has no driver.
LoadCandidateData(w, n, driver) ==
    /\ \/ /\ ing[w].pc = "extracted"
          /\ n = ing[w].n
          /\ calls' = calls
          /\ ing' = [ing EXCEPT ![w].pc =
                       IF driver /\ n > 0 THEN "cand" ELSE "returned"]
       \/ /\ ing[w].pc \in Ended
          /\ calls < MaxCalls
          /\ calls' = calls + 1
          /\ ing' = [ing EXCEPT ![w] =
                       [pc |-> IF driver /\ n > 0 THEN "cand" ELSE "returned",
                        src |-> "api", paths |-> <<>>, n |-> n, left |-> n,
                        id |-> 0, pend |-> {}]]
    /\ overlap' = (overlap \/ (driver /\ n > 0 /\
                      \E v \in Callers \ {w} : ing[v].pc \in {"cand", "skill"}))
    /\ UNCHANGED <<store, last_write, xvars, svars>>

\* session.run("MERGE (c:Candidate {id: $id, clean_text: $text})") for the
\* next record; the statement raises when the store fails.
CandidateStatement(w, rec, ok) ==
    /\ ing[w].pc = "cand"
    /\ rec \in RecordsAt(ing[w])
    /\ IF ok
       THEN /\ cnodes' = MergeCandidate(cnodes, rec.candidate_id, rec.text_clean)
            /\ last_write' = [last_write EXCEPT ![rec.candidate_id] = rec.text_clean]
            /\ ing' = [ing EXCEPT ![w] =
                         IF rec.skills = {}
                         THEN AfterRecord([ing[w] EXCEPT !.id = rec.candidate_id])
                         ELSE [ing[w] EXCEPT !.id = rec.candidate_id,
                                             !.pend = rec.skills, !.pc = "skill"]]
       ELSE /\ ing' = [ing EXCEPT ![w].pc = "raised"]
            /\ UNCHANGED <<cnodes, last_write>>
    /\ UNCHANGED <<snodes, has_skill, jnodes, req_skill, calls, overlap, xvars, svars>>

\* session.run("MERGE (s:Skill ..) MERGE (c:Candidate {id: $id})
\* MERGE (c)-[:HAS_SKILL]->(s)") for one skill of the record.  Every
\* statement commits on its own; when this one raises, the exception leaves
\* load_candidate_data with the record's remaining skills (pend) unwritten.
SkillStatement(w, skill, ok) ==
    /\ ing[w].pc = "skill"
    /\ skill \in ing[w].pend
    /\ IF ok
       THEN /\ snodes' = snodes \cup {skill}
            /\ cnodes' = MergeCandidateById(cnodes, ing[w].id)
            /\ has_skill' = MergeHasSkill(has_skill, cnodes', ing[w].id, skill)
            /\ ing' = [ing EXCEPT ![w] =
                         IF ing[w].pend = {skill}
                         THEN AfterRecord(ing[w])
                         ELSE [ing[w] EXCEPT !.pend = ing[w].pend \ {skill}]]
       ELSE /\ ing' = [ing EXCEPT ![w].pc = "raised"]
            /\ UNCHANGED <<cnodes, snodes, has_skill>>
    /\ UNCHANGED <<jnodes, req_skill, calls, last_write, overlap, xvars, svars>>

\* load_job_data(), up to its first statement: it returns at once when the
\* builder has no driver.
LoadJobData(w, driver) ==
    /\ ing[w].pc \in Ended
    /\ calls < MaxCalls
    /\ calls' = calls + 1
    /\ ing' = [ing EXCEPT ![w] =
                 [pc |-> IF driver THEN "job" ELSE "returned",
                  src |-> "job", paths |-> <<>>, n |-> 0, left |-> 0, id |-> 0,
                  pend |-> {}]]
    /\ UNCHANGED <<store, last_write, overlap, xvars, svars>>

\* session.run("MERGE (j:Job {id: 'target_job', title: 'Senior Python
\* Developer'})"); the statement raises when the store fails.
JobStatement(w, ok) ==
    /\ ing[w].pc = "job"
    /\ IF ok
       THEN /\ jnodes' = jnodes \cup {[id |-> "target_job", title |-> JobTitle]}
            /\ ing' = [ing EXCEPT ![w].pc = "jobskills"]
       ELSE /\ ing' = [ing EXCEPT ![w].pc = "raised"]
            /\ UNCHANGED jnodes
    /\ UNCHANGED <<cnodes, snodes, has_skill, req_skill, calls, last_write, overlap,
                   xvars, svars>>

\* session.run("MATCH (j:Job {id: 'target_job'}) MERGE (s1:Skill ..)
\* MERGE (s2:Skill ..) MERGE (j)-[:REQUIRES_SKILL]->(s1) MERGE
\* (j)-[:REQUIRES_SKILL]->(s2)"): the MERGEs run for every Job node the
\* MATCH finds.  A statement of its own, committed after the first.
JobSkillsStatement(w, ok) ==
    /\ ing[w].pc = "jobskills"
    /\ IF ok
       THEN /\ IF \E j \in jnodes : j.id = "target_job"
               THEN /\ snodes' = snodes \cup {"python", "django"}
                    /\ req_skill' = req_skill \cup
                          {<<"target_job", "python">>, <<"target_job", "django">>}
               ELSE UNCHANGED <<snodes, req_skill>>
            /\ ing' = [ing EXCEPT ![w].pc = "returned"]
       ELSE /\ ing' = [ing EXCEPT ![w].pc = "raised"]
            /\ UNCHANGED <<snodes, req_skill>>
    /\ UNCHANGED <<cnodes, has_skill, jnodes, calls, last_write, overlap, xvars, svars>>

Init == XIdle /\ KInit /\ SIdle /\ app = "ingest"

Next ==
    \/ \E w \in Callers, resume_paths \in ResumePathLists, failAt \in 0..MaxBatch :
          failAt <= Len(resume_paths) /\ ProcessAllResumes(w, resume_paths, failAt)
    \/ \E w \in Callers, n \in 0..MaxBatch, driver \in BOOLEAN :
          LoadCandidateData(w, n, driver)
    \/ \E w \in Callers, rec \in Records \cup MockRecords, ok \in BOOLEAN :
          CandidateStatement(w, rec, ok)
    \/ \E w \in Callers, skill \in ESCO_SKILLS, ok \in BOOLEAN :
          SkillStatement(w, skill, ok)
    \/ \E w \in Callers, driver \in BOOLEAN : LoadJobData(w, driver)
    \/ \E w \in Callers, ok \in BOOLEAN : JobStatement(w, ok)
    \/ \E w \in Callers, ok \in BOOLEAN : JobSkillsStatement(w, ok)

Spec == Init /\ [][Next]_vars

(***************************************************************************)
(* Retrieval.  Helpers of the Cypher queries.                              *)
(***************************************************************************)
Min(a, b) == IF a <= b THEN a ELSE b

\* The orderings of a set of rows.
PermSeqs(R) ==
    {f \in [1..Cardinality(R) -> R] : \A i, j \in 1..Cardinality(R) : i /= j => f[i] /= f[j]}

\* The column a query sorts its rows on: hybrid_score in the rag service's
\* query, match_count in the dashboards'.
SortKey(r) == IF "hybrid_score" \in DOMAIN r THEN r.hybrid_score ELSE r.match_count

\* ORDER BY key DESC: every ordering of the rows in which the key never
\* increases (rows with equal keys come in any order).
OrderByDesc(R) ==
    {f \in PermSeqs(R) : \A i \in 1..(Len(f) - 1) : SortKey(f[i]) >= SortKey(f[i + 1])}

\* LIMIT k
Limit(f, k) == SubSeq(f, 1, Min(k, Len(f)))

\* Characters, and (?i): letters compare without case.
LowerChar(c) ==
    CASE c = "A" -> "a"
      [] c = "B" -> "b"
      [] c = "S" -> "s"
      [] c = "P" -> "p"
      [] c = "D" -> "d"
      [] OTHER -> c

\* name =~ "(?i).*" + job_title + ".*": the pattern matches a stretch of
\* the name; "." in job_title matches any character.
TitleMatches(job_title, name) ==
    \E a \in 1..(Len(name) - Len(job_title) + 1) :
        \A i \in 1..Len(job_title) :
            job_title[i] = "." \/ LowerChar(job_title[i]) = LowerChar(name[a + i - 1])

\* The queries a caller types.
\* "(" alone is no regular expression: the store raises on the pattern made
\* from it.
Queries == {<<"a">>, <<"b">>, <<"d">>, <<"B", ".">>, <<"(">>}

\* Whether "(?i).*" + job_title + ".*" is a pattern the store cannot compile
\* (of the characters here: a group that is opened and not closed).
PatternRaises(job_title) == \E i \in 1..Len(job_title) : job_title[i] = "("

\* What a call gives its caller: the list it returns, or an exception.
Returned(rows) == [raised |-> FALSE, rows |-> rows]

Raised == [raised |-> TRUE, rows |-> <<>>]

(***************************************************************************)
(* The rag service's store is the one KGBuilder loads.                     *)
(***************************************************************************)
RECURSIVE LinkSkills(_, _, _, _)
LinkSkills(cn, hs, id, skills) ==
    IF skills = {} THEN <<cn, hs>>
    ELSE LET s == CHOOSE x \in skills : TRUE
             cn1 == MergeCandidateById(cn, id)
         IN  LinkSkills(cn1, MergeHasSkill(hs, cn1, id, s), id, skills \ {s})

\* load_candidate_data(structured_data) with a working store, as a function
\* of the graph <<Candidate nodes, Skill names, HAS_SKILL>> it starts from:
\* the records in order, each its Candidate statement and then its skill
\* statements.
RECURSIVE load_candidate_data(_, _)
load_candidate_data(g, structured_data) ==
    IF structured_data = <<>> THEN g
    ELSE LET record == Head(structured_data)
             cn1 == MergeCandidate(g[1], record.candidate_id, record.text_clean)
             r == LinkSkills(cn1, g[3], record.candidate_id, record.skills)
         IN  load_candidate_data(<<r[1], g[2] \cup record.skills, r[2]>>,
                                 Tail(structured_data))

(***************************************************************************)
(* RAGService.hybrid_candidate_search                                      *)
(***************************************************************************)
\* MATCH (j:Job {id: 'target_job'})-[:REQUIRES_SKILL]->(rs:Skill)
\* MATCH (c:Candidate)-[:HAS_SKILL]->(rs)  WITH DISTINCT c
HybridMatches ==
    {c \in cnodes : \E j \in jnodes, rs \in snodes :
        /\ j.id = "target_job"
        /\ <<j.id, rs>> \in req_skill
        /\ <<c, rs>> \in has_skill}

NoRationale == [text |-> "", id |-> -1]

\* RETURN c.id, c.clean_text, (0.8 + rand() * 0.1); the score in hundredths.
HybridRow(c, rnd) ==
    [candidate_id |-> c.id, context_chunk |-> c.clean_text,
     hybrid_score |-> 80 + rnd, rationale |-> NoRationale]

\* The lists the query may return for LIMIT top_k.
HybridQuery(top_k) ==
    UNION {{Limit(f, top_k) :
              f \in OrderByDesc({HybridRow(c, rnd[c]) : c \in HybridMatches})} :
           rnd \in [HybridMatches -> 0..RandMax]}

\* What may go wrong in a call: nothing, embedding_model.encode raises,
\* driver.session raises, session.run raises.
HybridFaults == {"none", "encode", "session", "run"}

\* hybrid_candidate_search(query, top_k): [] when the service is not
\* initialized; an exception of encode or of driver.session leaves the
\* function (both are outside the try); [] when the query raises.
hybrid_candidate_search(query, top_k, fault) ==
    IF ~initialized THEN {Returned(<<>>)}
    ELSE IF fault \in {"encode", "session"} THEN {Raised}
    ELSE IF fault = "run" THEN {Returned(<<>>)}
    ELSE {Returned(f) : f \in HybridQuery(top_k)}

HybridSearch(query, top_k, fault) ==
    /\ app = "rag"
    /\ call.op = "none"
    /\ \E out \in hybrid_candidate_search(query, top_k, fault) :
          /\ retrieved' = out.rows
          /\ call' = [op |-> IF ~initialized THEN "hybrid-uninitialized"
                             ELSE IF out.raised THEN "hybrid-raised"
                             ELSE IF fault = "run" THEN "hybrid-error" ELSE "hybrid",
                      query |-> query, k |-> top_k, thr |-> <<0, 1>>, failing |-> {}]
    /\ UNCHANGED <<kvars, xvars, app, initialized, dstore, top>>

\* The caller runs the search once more with the same query and top_k, on
\* the store as it was (no load runs while a call is outstanding).
SearchAgain ==
    /\ app = "rag"
    /\ call.op = "hybrid"
    /\ \E out \in hybrid_candidate_search(call.query, call.k, "none") :
          retrieved' = out.rows
    /\ UNCHANGED <<kvars, xvars, app, initialized, call, dstore, top>>

(***************************************************************************)
(* RAGService.generate_rationale                                           *)
(***************************************************************************)
MockRationale(id) ==
    [text |-> "Candidate {id} is a strong match due to confirmed proficiency ...",
     id |-> id]

ErrorRationale ==
    [text |-> "Error generating rationale (API call failed): {e}", id |-> -1]

\* A loop that leaves out the candidates whose generation raises.
generate_rationale_dropping(cands, failing) ==
    LET kept == SelectSeq([i \in 1..Len(cands) |-> <<i, cands[i]>>],
                          LAMBDA x : x[1] \notin failing)
    IN  [i \in 1..Len(kept) |->
            [kept[i][2] EXCEPT !.rationale = MockRationale(kept[i][2].candidate_id)]]

\* The loop over the list; failing holds the positions whose generation
\* raises inside the try block.
generate_rationale(cands, failing) ==
    [i \in 1..Len(cands) |->
        [cands[i] EXCEPT !.rationale =
            IF i \in failing THEN ErrorRationale
            ELSE MockRationale(cands[i].candidate_id)]]

GenerateRationale(failing) ==
    /\ app = "rag"
    /\ call.op = "hybrid"
    /\ failing \subseteq 1..Len(retrieved)
    /\ retrieved' = generate_rationale(retrieved, failing)
    /\ call' = [call EXCEPT !.op = "rationale", !.failing = failing]
    /\ UNCHANGED <<kvars, xvars, app, initialized, dstore, top>>

\* The caller is done with the response.
Discard ==
    /\ app \in {"rag", "dash"}
    /\ call.op /= "none"
    /\ call' = NoCall
    /\ retrieved' = <<>>
    /\ top' = <<>>
    /\ UNCHANGED <<kvars, xvars, app, initialized, dstore>>

(***************************************************************************)
(* ui/streamlit_app.py: what the page shows for the list the search        *)
(* returned.                                                               *)
(***************************************************************************)
NoCandidatesWarning == "No candidates were returned by the hybrid search."

HandlerMessage(results) ==
    IF ~initialized THEN "System is not operational."
    ELSE IF results /= <<>> THEN "Found and analyzed candidates."
    ELSE NoCandidatesWarning

(***************************************************************************)
(* The dashboards' get_top_candidates.                                     *)
(***************************************************************************)
NoId == -1

\* coalesce(toString(c.id), last(split(elementId(c), ':')))
ResultId(c) == IF c.id /= NoId THEN c.id ELSE c.eid

\* MATCH (o:Occupation) WHERE o.name =~ $job_name
MatchedOccupations(job_title) == {o \in onodes : TitleMatches(job_title, o.name)}

\* MATCH (o)-[:REQUIRES]->(all_s:Skill): collect(DISTINCT all_s.name)
AllReqs(o) == {sk \in UNION {{r[2]} : r \in oreq} : <<o.eid, sk>> \in oreq}

\* MATCH (o)-[:REQUIRES]->(s) OPTIONAL MATCH (s)<-[:HAS_SKILL]-(c):
\* collect(DISTINCT s.name) of the group (o, c)
MatchedSkillsOf(o, c) == {sk \in AllReqs(o) : <<c.eid, sk>> \in dhas}

\* The group (o, c) exists, with c not null, when c holds a skill o requires.
DashRow(o, c) ==
    [occ |-> o.eid, node |-> c.eid, id |-> ResultId(c),
     match_count |-> Cardinality(MatchedSkillsOf(o, c)),
     total_count |-> Cardinality(AllReqs(o)),
     matched |-> MatchedSkillsOf(o, c), all_reqs |-> AllReqs(o)]

\* A query without WHERE c IS NOT NULL and its traversal: a row for every
\* candidate, overlap or not.
DashRowsAllPairs(job_title) ==
    {DashRow(oc[1], oc[2]) : oc \in MatchedOccupations(job_title) \X dcands}

DashRows(job_title) ==
    {DashRow(oc[1], oc[2]) :
        oc \in {x \in MatchedOccupations(job_title) \X dcands :
                    MatchedSkillsOf(x[1], x[2]) /= {}}}

\* WHERE (toFloat(m_count)/t_count) >= $threshold, the threshold a fraction.
PassesThreshold(r, thr) == r.match_count * thr[2] >= thr[1] * r.total_count

\* session.run(...) of get_top_candidates raises when the store cannot be
\* reached (ok = FALSE) and when an Occupation node's name is matched
\* against a pattern that does not compile.
DashQueryRaises(job_title, ok) ==
    ~ok \/ (PatternRaises(job_title) /\ onodes /= {})

\* dashboard-v1: get_top_candidates(job_title, limit); nothing in it, or in
\* the page, catches an exception.
get_top_candidates_v1(job_title, limit, ok) ==
    IF DashQueryRaises(job_title, ok) THEN {Raised}
    ELSE {Returned(Limit(f, limit)) : f \in OrderByDesc(DashRows(job_title))}

\* dashboard-v2: get_top_candidates(job_title, limit, threshold)
get_top_candidates_v2(job_title, limit, threshold, ok) ==
    IF DashQueryRaises(job_title, ok) THEN {Raised}
    ELSE {Returned(Limit(f, limit)) :
            f \in OrderByDesc({r \in DashRows(job_title) : PassesThreshold(r, threshold)})}

\* dashboard-v1's page: the sliders and the call
\* get_top_candidates(role_input, limit=num_candidates).
DashboardV1(role_input, num_candidates, min_score, ok) ==
    /\ app = "dash"
    /\ call.op = "none"
    /\ \E out \in get_top_candidates_v1(role_input, num_candidates, ok) :
          /\ top' = out.rows
          /\ call' = [op |-> IF ~ok THEN "v1-unavailable"
                             ELSE IF out.raised THEN "v1-raised" ELSE "v1",
                      query |-> role_input, k |-> num_candidates,
                      thr |-> min_score, failing |-> {}]
    /\ UNCHANGED <<kvars, xvars, app, initialized, retrieved, dstore>>

\* dashboard-v2's page: the sliders and the call
\* get_top_candidates(role_query, limit=max_results, threshold=min_threshold).
DashboardV2(role_query, max_results, min_threshold, ok) ==
    /\ app = "dash"
    /\ call.op = "none"
    /\ \E out \in get_top_candidates_v2(role_query, max_results, min_threshold, ok) :
          /\ top' = out.rows
          /\ call' = [op |-> IF ~ok THEN "v2-unavailable"
                             ELSE IF out.raised THEN "v2-raised" ELSE "v2",
                      query |-> role_query, k |-> max_results,
                      thr |-> min_threshold, failing |-> {}]
    /\ UNCHANGED <<kvars, xvars, app, initialized, retrieved, dstore>>

\* The values of the "Minimum Match Score" slider (0.50 to 1.00) and of the
\* "Min Match Threshold" slider (0.0 to 1.0) taken here, as fractions.
MinScores == {<<3, 4>>}

MinThresholds == {<<0, 1>>, <<1, 2>>, <<1, 1>>}

DashSkills == {"python", "django", "flask"}

\* The dashboards read a store another program filled: two occupations
\* with their required skills, two candidates with their skills.
InitDash ==
    /\ app = "dash"
    /\ XIdle
    /\ KInit
    /\ initialized = FALSE
    /\ call = NoCall
    /\ retrieved = <<>>
    /\ top = <<>>
    /\ onodes = {[eid |-> 1, name |-> <<"A", "b">>], [eid |-> 2, name |-> <<"B", "c">>]}
    /\ \E r1 \in SUBSET ({1} \X DashSkills), r2 \in SUBSET ({2} \X {"python"}) :
          oreq = r1 \cup r2
    /\ \E i0, i1 \in {NoId, 0} :
          dcands = {[eid |-> 0, id |-> i0], [eid |-> 1, id |-> i1]}
    /\ dhas \in SUBSET ({0, 1} \X DashSkills)

\* The rag service over an empty store; the service did or did not
\* initialize.
InitRag ==
    /\ app = "rag"
    /\ XIdle
    /\ KInit
    /\ initialized \in BOOLEAN
    /\ call = NoCall
    /\ retrieved = <<>>
    /\ top = <<>>
    /\ onodes = {}
    /\ oreq = {}
    /\ dcands = {}
    /\ dhas = {}

\* The loader's statements while the rag service runs: one builder makes
\* the calls.  The builder is a program of its own on the same database: a
\* search may come between any two of its statements, and its statements go
\* on while the caller of a search holds the response.
RagLoader == CHOOSE w \in Callers : TRUE

NextLoad ==
    /\ app = "rag"
    /\ \/ \E n \in 1..MaxBatch, driver \in BOOLEAN : LoadCandidateData(RagLoader, n, driver)
       \/ \E rec \in Records, ok \in BOOLEAN : CandidateStatement(RagLoader, rec, ok)
       \/ \E skill \in ESCO_SKILLS, ok \in BOOLEAN : SkillStatement(RagLoader, skill, ok)
       \/ \E driver \in BOOLEAN : LoadJobData(RagLoader, driver)
       \/ \E ok \in BOOLEAN : JobStatement(RagLoader, ok)
       \/ \E ok \in BOOLEAN : JobSkillsStatement(RagLoader, ok)

NextRag ==
    \/ NextLoad
    \/ \E query \in Queries, top_k \in 1..MaxTopK, fault \in HybridFaults :
          HybridSearch(query, top_k, fault)
    \/ SearchAgain
    \/ \E failing \in SUBSET (1..MaxTopK) : GenerateRationale(failing)
    \/ Discard

NextDash ==
    \/ \E q \in Queries, k \in 1..MaxTopK, thr \in MinScores, ok \in BOOLEAN :
          DashboardV1(q, k, thr, ok)
    \/ \E q \in Queries, k \in 1..MaxTopK, thr \in MinThresholds, ok \in BOOLEAN :
          DashboardV2(q, k, thr, ok)
    \/ Discard

SpecRag == InitRag /\ [][NextRag]_vars

SpecSearch == (InitRag \/ InitDash) /\ [][NextRag \/ NextDash]_vars

(***************************************************************************)
(* C1: every span the recognizer labels with a masked category is absent   *)
(* from the text_clean extract_entities returns.                           *)
(***************************************************************************)
C1_MaskingComplete ==
    xpc = "done" =>
        \A e \in xents : e.label \in MASKED_ENTITIES =>
            ~Contains(extracted.text_clean, SpanText(xtext, e))

(***************************************************************************)
(* C2: after any sequence of load_candidate_data calls the store holds at  *)
(* most one Candidate node per candidate id (a re-ingested id overwrites   *)
(* the node's clean_text).                                                 *)
(***************************************************************************)
C2_OneNodePerId ==
    \A c1, c2 \in cnodes : c1.id = c2.id => c1 = c2

(***************************************************************************)
(* C3: once two ingestions that ran concurrently have both ended, every    *)
(* candidate id they wrote has exactly one Candidate node, whose           *)
(* clean_text is the text of the Candidate statement executed last.        *)
(***************************************************************************)
C3_LastWriteWins ==
    (overlap /\ \A w \in Callers : ing[w].pc \in Ended) =>
        \A i \in CandIds : last_write[i] /= Null =>
            BoundById(cnodes, i) = {[id |-> i, clean_text |-> last_write[i]]}

(***************************************************************************)
(* C10: a failure at one document does not abort the batch: no call ends   *)
(* in an exception while documents other than the failed one are still     *)
(* unwritten (left counts the documents not yet completely written, the    *)
(* failed one among them).                                                 *)
(***************************************************************************)
C10_BatchContinues ==
    \A w \in Callers : ing[w].pc = "raised" => ing[w].left <= 1

(***************************************************************************)
(* What the stores hold, stated on the relationships themselves.           *)
(***************************************************************************)
\* The skills the job 'target_job' requires, and those of them a Candidate
\* node of the rag service's store holds.
JobRequired == {sk \in ESCO_SKILLS : <<"target_job", sk>> \in req_skill}

HeldOfJob(c) == {sk \in JobRequired : <<c, sk>> \in has_skill}

NodeOfRow(r) == [id |-> r.candidate_id, clean_text |-> r.context_chunk]

\* The skills an occupation of the dashboards' store requires, and those of
\* them a candidate holds.
OccRequired(oid) == {sk \in DashSkills : <<oid, sk>> \in oreq}

HeldOfOcc(oid, cid) == {sk \in OccRequired(oid) : <<cid, sk>> \in dhas}

HybridAnswered == call.op \in {"hybrid", "rationale"}

DashAnswered == call.op \in {"v1", "v2"}

(***************************************************************************)
(* C4: a search returns a candidate only if the candidate holds at least   *)
(* one skill the resolved job requires, and the matched skills it reports  *)
(* are exactly the required skills the candidate holds.                    *)
(***************************************************************************)
C4_OnlyOverlappingCandidates ==
    /\ HybridAnswered =>
          \A i \in 1..Len(retrieved) :
              /\ NodeOfRow(retrieved[i]) \in cnodes
              /\ HeldOfJob(NodeOfRow(retrieved[i])) /= {}
    /\ DashAnswered =>
          \A i \in 1..Len(top) :
              /\ \E o \in onodes : o.eid = top[i].occ /\ TitleMatches(call.query, o.name)
              /\ \E c \in dcands : c.eid = top[i].node
              /\ top[i].matched = HeldOfOcc(top[i].occ, top[i].node)
              /\ top[i].matched /= {}
              /\ top[i].matched \subseteq OccRequired(top[i].occ)

\* A dashboard search returned a candidate with part of the required skills
\* and left out, with room to spare, a candidate that holds skills but none
\* of the required ones.
C4_Witness ==
    /\ DashAnswered
    /\ Len(top) >= 1
    /\ Len(top) < call.k
    /\ top[1].matched /= top[1].all_reqs
    /\ \E c \in dcands :
          /\ \E sk \in DashSkills : <<c.eid, sk>> \in dhas
          /\ \A o \in onodes : HeldOfOcc(o.eid, c.eid) = {}
          /\ \A i \in 1..Len(top) : top[i].node /= c.eid

(***************************************************************************)
(* C5: a returned candidate that holds m of the job's n required skills is *)
(* reported with matched count m and total count n (n >= 1), in the rag    *)
(* service's search as in the dashboards'; a job that requires no skill    *)
(* returns no candidate.                                                   *)
(***************************************************************************)
C5_CoverageCounts ==
    /\ DashAnswered =>
          \A i \in 1..Len(top) :
              /\ top[i].match_count = Cardinality(HeldOfOcc(top[i].occ, top[i].node))
              /\ top[i].total_count = Cardinality(OccRequired(top[i].occ))
              /\ top[i].total_count >= 1
              /\ top[i].all_reqs = OccRequired(top[i].occ)
    /\ HybridAnswered =>
          \A i \in 1..Len(retrieved) :
              /\ "match_count" \in DOMAIN retrieved[i]
              /\ "total_count" \in DOMAIN retrieved[i]
    /\ (HybridAnswered /\ JobRequired = {}) => retrieved = <<>>

(***************************************************************************)
(* C6: the result is the first topK of the eligible candidates ordered by  *)
(* score descending, equal scores by higher coverage first, then by lower  *)
(* candidate id first; it is never longer than topK.  (A dashboard row's   *)
(* score is its coverage, matched over required.)                          *)
(***************************************************************************)
DashRankedBefore(a, b) ==
    \/ a.match_count * b.total_count > b.match_count * a.total_count
    \/ /\ a.match_count * b.total_count = b.match_count * a.total_count
       /\ a.id <= b.id

HybridRankedBefore(a, b) ==
    \/ a.hybrid_score > b.hybrid_score
    \/ /\ a.hybrid_score = b.hybrid_score
       /\ \/ Cardinality(HeldOfJob(NodeOfRow(a))) > Cardinality(HeldOfJob(NodeOfRow(b)))
          \/ /\ Cardinality(HeldOfJob(NodeOfRow(a))) = Cardinality(HeldOfJob(NodeOfRow(b)))
             /\ a.candidate_id <= b.candidate_id

C6_RankedWithTieBreaks ==
    /\ DashAnswered =>
          /\ Len(top) <= call.k
          /\ \A i, j \in 1..Len(top) : i < j => DashRankedBefore(top[i], top[j])
    /\ call.op = "hybrid" =>
          /\ Len(retrieved) <= call.k
          /\ \A i, j \in 1..Len(retrieved) :
                i < j => HybridRankedBefore(retrieved[i], retrieved[j])

(***************************************************************************)
(* C7: no row a dashboard shows has a score (matched over required) below  *)
(* the minimum the caller set.                                             *)
(***************************************************************************)
C7_NoResultBelowThreshold ==
    DashAnswered =>
        \A i \in 1..Len(top) :
            top[i].match_count * call.thr[2] >= call.thr[1] * top[i].total_count

(***************************************************************************)
(* C8: a query that matches the title of no job or occupation in the store *)
(* returns the empty sequence and raises no error.  (A query the store     *)
(* cannot compile to a pattern matches no title.  The calls are those the  *)
(* store answered: a store that cannot be reached is another failure.)     *)
(***************************************************************************)
QueryMatches(query, name) == ~PatternRaises(query) /\ TitleMatches(query, name)

C8_NoTitleMatchEmpty ==
    /\ (/\ call.op \in {"v1", "v2", "v1-raised", "v2-raised"}
        /\ \A o \in onodes : ~QueryMatches(call.query, o.name))
          => (call.op \in {"v1", "v2"} /\ top = <<>>)
    /\ (/\ call.op = "hybrid"
        /\ \A j \in jnodes : ~QueryMatches(call.query, j.title))
          => retrieved = <<>>

(***************************************************************************)
(* C9: when generation fails for a candidate inside generate_rationale,    *)
(* the returned list has the same candidates in the same order, the failed *)
(* candidate carries a non-empty sentinel rationale, and every other       *)
(* candidate carries the rationale generated for it.                       *)
(***************************************************************************)
C9_GenerationFailureIsolated ==
    [][(call.op = "hybrid" /\ call'.op = "rationale") =>
          /\ Len(retrieved') = Len(retrieved)
          /\ \A i \in 1..Len(retrieved) :
                /\ retrieved'[i].candidate_id = retrieved[i].candidate_id
                /\ retrieved'[i].context_chunk = retrieved[i].context_chunk
                /\ retrieved'[i].hybrid_score = retrieved[i].hybrid_score
                /\ i \in call'.failing =>
                      /\ retrieved'[i].rationale.text /= ""
                      /\ retrieved'[i].rationale /= MockRationale(retrieved[i].candidate_id)
                /\ i \notin call'.failing =>
                      retrieved'[i].rationale = MockRationale(retrieved[i].candidate_id)]_vars

\* Generation failed for the first of two candidates only.
C9_Witness ==
    /\ call.op = "rationale"
    /\ Len(retrieved) = 2
    /\ call.failing = {1}
    /\ retrieved[1].rationale = ErrorRationale
    /\ retrieved[2].rationale = MockRationale(retrieved[2].candidate_id)

(***************************************************************************)
(* C11: when the store is unreachable at the start (the builder has no     *)
(* driver) or fails part-way through load_candidate_data, the call ends in *)
(* an error its caller observes (it never returns normally with records    *)
(* unwritten) and leaves no partial write: after a failed call no          *)
(* Candidate node of the record it was writing lacks a HAS_SKILL link of   *)
(* that record.                                                            *)
(***************************************************************************)
C11_FailFastNoPartialWrite ==
    \A w \in Callers :
        /\ ing[w].pc = "returned" => ing[w].left = 0
        /\ ing[w].pc = "raised" =>
              \A c \in BoundById(cnodes, ing[w].id), sk \in ing[w].pend :
                  <<c, sk>> \in has_skill

(***************************************************************************)
(* C12: when the service is not initialized or the store query fails, the  *)
(* search reports a failure: it does not return the empty sequence it      *)
(* returns for a query with zero matches, and the page does not show the   *)
(* message it shows for zero matches.                                      *)
(***************************************************************************)
C12_FailureDistinctFromNoMatch ==
    call.op \in {"hybrid-uninitialized", "hybrid-error"} =>
        /\ retrieved /= <<>>
        /\ HandlerMessage(retrieved) /= NoCandidatesWarning

(***************************************************************************)
(* C13: in an ingestion run the text of a document goes through the masker *)
(* and then extraction before it is written, and the text written to the   *)
(* store is the masker's output, never its input: no Candidate node holds  *)
(* the raw text process_all_resumes read.  (The order of the steps is that *)
(* of Nlp, ApplyGuardrails, ExtractRecord, and of ProcessAllResumes before *)
(* LoadCandidateData; the written text is what the claim is refuted on.)   *)
(***************************************************************************)
C13_StoreNeverReceivesRawText ==
    /\ \A c \in cnodes : c.clean_text /= MockText
    /\ \A i \in CandIds : last_write[i] /= MockText

(***************************************************************************)
(* C14: two executions of the search with the same query, the same topK    *)
(* and the same store contents return the same sequence of candidate ids   *)
(* with the same scores.  (The list held before the step is one the search *)
(* returns on the store of the step: the loader may have written since it  *)
(* was computed, and then the two executions are not on the same store.)   *)
(***************************************************************************)
C14_RetrievalReproducible ==
    [][(/\ call.op = "hybrid" /\ call' = call /\ store' = store
        /\ Returned(retrieved) \in hybrid_candidate_search(call.query, call.k, "none")) =>
          /\ Len(retrieved') = Len(retrieved)
          /\ \A i \in 1..Len(retrieved) :
                /\ retrieved'[i].candidate_id = retrieved[i].candidate_id
                /\ retrieved'[i].hybrid_score = retrieved[i].hybrid_score]_vars

(***************************************************************************)
(* C15: two different ingested documents never carry the same candidate    *)
(* id: of the documents the ingestion runs have given ids to, no two with  *)
(* different paths have the same id.                                       *)
(***************************************************************************)
\* The (document, id) pairs of a run whose process_all_resumes returned.
AssignedIds(c) ==
    IF c.src = "driver" /\ c.pc \in {"extracted", "cand", "skill", "returned"}
    THEN {<<c.paths[p], p - 1>> : p \in 1..Len(c.paths)}
    ELSE {}

C15_IdsUniquePerDocument ==
    \A w1, w2 \in Callers :
        \A a \in AssignedIds(ing[w1]), b \in AssignedIds(ing[w2]) :
            a[1] /= b[1] => a[2] /= b[2]

(***************************************************************************)
(* C16: running load_candidate_data a second time with the same records    *)
(* leaves exactly the graph one run produces: the second run adds no       *)
(* Candidate node, no Skill node and no HAS_SKILL relationship.  (A Skill  *)
(* node is told by its name, so there is one per name.)                    *)
(***************************************************************************)
C16_SecondRunAddsNothing ==
    \A structured_data \in BoundedSeqs(Records, MaxBatch) :
        LET one == load_candidate_data(<<cnodes, snodes, has_skill>>, structured_data)
        IN  load_candidate_data(one, structured_data) = one

(***************************************************************************)
(* C17: the score of a search result is determined by the candidate's      *)
(* skill coverage and by the similarity of the query and the candidate's   *)
(* clean text: two results of one search (one query) whose candidates have *)
(* the same coverage and the same clean text, and with it the same         *)
(* similarity to the query, have the same score.                           *)
(***************************************************************************)
C17_ScoreDeterminedBySignals ==
    call.op = "hybrid" =>
        \A i, j \in 1..Len(retrieved) :
            (/\ retrieved[i].context_chunk = retrieved[j].context_chunk
             /\ HeldOfJob(NodeOfRow(retrieved[i])) = HeldOfJob(NodeOfRow(retrieved[j])))
                => retrieved[i].hybrid_score = retrieved[j].hybrid_score

(***************************************************************************)
(* C18: one search call returns each candidate at most once: no two        *)
(* results of a call share a candidate id, also when the query matches     *)
(* more than one occupation and when an id was ingested more than once.    *)
(* (In the dashboards: no two rows are of the same Candidate node, whose   *)
(* id they would share.)                                                   *)
(***************************************************************************)
C18_NoCandidateTwice ==
    /\ DashAnswered =>
          \A i, j \in 1..Len(top) : i /= j => top[i].node /= top[j].node
    /\ HybridAnswered =>
          \A i, j \in 1..Len(retrieved) :
              i /= j => retrieved[i].candidate_id /= retrieved[j].candidate_id

====
